---- MODULE Spec2Model ----
(***************************************************************************)
(* The client-side session of the application: AuthProvider               *)
(* (frontend/src/context/AuthContext.js), the two route gates             *)
(* ProtectedRoute / PublicRoute of App.js, and the callers of the session *)
(* operations (AuthPage.handleSubmit, the logout button of MainLayout).   *)
(*                                                                         *)
(* One action is one run of the single UI thread from an event to the      *)
(* commit of the re-render it causes, the passive effects of that render   *)
(* included: the state setters of a handler are batched, and the           *)
(* useEffect of AuthProvider re-runs in the same step whenever `token`     *)
(* (and with it the memoised `api`) has changed.  An `await` ends a step;  *)
(* the arrival of the response is a step of its own.                       *)
(*                                                                         *)
(* Two views that keep state of their own are modelled next to the         *)
(* session, each in a specification of its own inside an authenticated     *)
(* session: MessagesPage (frontend/src/pages/MessagesPage.js) with its     *)
(* polling timer, and PostCard (frontend/src/components/PostCard.js) with  *)
(* its like button.                                                        *)
(***************************************************************************)
EXTENDS Integers, FiniteSets, Sequences, TLC

\* ---------------------------------------------------------------- bounds
MaxOps == 4        \* calls of login / register / logout / updateUser
MaxPending == 1    \* POST /auth/login and /auth/register requests in flight
MaxTimers == 3     \* intervals MessagesPage creates in one run
MaxFetches == 2    \* GET /conversations/:id/messages requests in flight
MaxClicks == 3     \* clicks on the like button of one PostCard

\* ------------------------------------------------------------ value sets
NoToken == "null"                       \* localStorage.getItem -> null, setToken(null)
Tokens == {"T1", "T2"}                  \* bearer strings the backend issues
None == << >>                           \* user === null
Some(u) == << u >>                      \* user is an object

\* identity records the backend answers with ({token, user} / GET /auth/me)
Users == { [id |-> "1", username |-> "a"], [id |-> "2", username |-> "b"] }
\* arguments of updateUser: objects carrying some of the fields
Patches == { [username |-> "c"], [id |-> "2", username |-> "b"] }

VARIABLES
  user,      \* useState(null)                        AuthContext.js:9
  token,     \* useState(localStorage.getItem(..))    AuthContext.js:10
  loading,   \* useState(true)                        AuthContext.js:11
  storage,   \* localStorage item 'token'
  pc,        \* "mount": first render committed, effect not yet run; "ready"
  inflight,  \* requests awaiting their response
  meIssued,  \* GET /auth/me requests issued so far
  ops,       \* session operations called so far
  held,      \* token bound in an api function a caller obtained at an earlier render
  trail,     \* "login" after a successful login, "login-logout" after a logout following it
  location,  \* the URL path of BrowserRouter
  last,      \* the step just taken, with what it handed out
  authPage,  \* AuthPage: the request its `loading` flag waits for, its last toast
  \* MessagesPage                                          MessagesPage.js
  mounted,               \* the page is rendered
  conversationId,        \* useParams()                                   :14
  conversations,         \* useState([])                                  :17
  selectedConversation,  \* useState(null)                                :18
  messages,              \* useState([])                                  :19
  pollInterval,          \* useRef(null): pollInterval.current            :25
  timers,                \* the intervals of setInterval that are not cleared
  timerSeq,              \* interval ids handed out so far
  fetches,               \* message requests awaiting their response
  \* PostCard                                              PostCard.js
  post,                  \* the post prop: is_liked, likes_count
  liked,                 \* useState(post.is_liked)                       :19
  likesCount,            \* useState(post.likes_count)                    :20
  likeReqs,              \* POST / DELETE /posts/:id/like awaiting their response
  clicks                 \* clicks on the like button so far

session == << user, token, loading, storage >>
sessionVars == << user, token, loading, storage, pc, inflight, meIssued, ops, held, trail,
                  location, last, authPage >>
messagesVars == << mounted, conversationId, conversations, selectedConversation, messages,
                   pollInterval, timers, timerSeq, fetches >>
postVars == << post, liked, likesCount, likeReqs, clicks >>
views == << messagesVars, postVars >>
vars == << sessionVars, messagesVars, postVars >>

\* ------------------------------------------------------- pure operators
\* headers: token ? { Authorization: `Bearer ${token}` } : {}
Bearer(tok) == IF tok # NoToken THEN << "Bearer", tok >> ELSE << >>

\* api(): the request client of the current render, bound to that render's token
api == Bearer(token)

\* setUser(() => userData): the argument replaces the identity
MergeReplace(prev, d) == d

\* { ...prev, ...userData } ; spreading null contributes no field
Merge(prev, d) ==
  IF prev = None THEN d
  ELSE [f \in (DOMAIN prev[1]) \cup (DOMAIN d) |->
          IF f \in DOMAIN d THEN d[f] ELSE prev[1][f]]

\* ProtectedRoute without its `if (loading)` branch
ProtectedRouteNoLoading ==
  IF user = None THEN "redirect:/auth" ELSE "children"

\* ProtectedRoute: placeholder while loading, redirect without user, else children
ProtectedRoute ==
  IF loading THEN "placeholder" ELSE IF user = None THEN "redirect:/auth" ELSE "children"

\* PublicRoute with its test inverted: `if (!user)` redirects
PublicRouteInverted ==
  IF loading THEN "placeholder" ELSE IF user = None THEN "redirect:/" ELSE "children"

\* PublicRoute without its `if (user)` branch
PublicRouteNoRedirect ==
  IF loading THEN "placeholder" ELSE "children"

\* PublicRoute: placeholder while loading, redirect with user, else children
PublicRoute ==
  IF loading THEN "placeholder" ELSE IF user # None THEN "redirect:/" ELSE "children"

\* the status the gates derive from loading and user
status ==
  IF loading THEN "resolving" ELSE IF user # None THEN "authenticated" ELSE "anonymous"

\* URL paths: the entry view, two of the protected routes, a path no route matches
ProtectedPaths == {"/", "/explore"}
Paths == {"/auth"} \cup ProtectedPaths \cup {"/nowhere"}

\* AppRoutes: what the route matching `path` renders
AppRoutes(path) ==
  IF path = "/auth" THEN PublicRoute
  ELSE IF path \in ProtectedPaths THEN ProtectedRoute
  ELSE "redirect:/"

\* <Navigate to=... replace />: the path after one rendering of `path`
Hop(path) ==
  IF AppRoutes(path) = "redirect:/auth" THEN "/auth"
  ELSE IF AppRoutes(path) = "redirect:/" THEN "/"
  ELSE path

\* the path the router comes to rest on: redirects are followed until a route
\* renders a view or a placeholder (or a path comes round again)
RECURSIVE Settle(_, _)
Settle(path, seen) ==
  IF Hop(path) = path \/ Hop(path) \in seen THEN path
  ELSE Settle(Hop(path), seen \cup {path})

\* the re-render after a step, at the path the step leaves (RouteFrom) or
\* navigates to (RouteTo), with the redirects of the new session state
RouteFrom == \E p \in Paths : p = location /\ location' = Settle(p, {})'
RouteTo(p) == location' = Settle(p, {})'

\* a request in flight: its endpoint, the token its api() was bound to, and two
\* marks kept while it waits: the session token was changed by login / register /
\* logout since it was issued (stale), logout was called since (loggedOut)
Req(k, i, tok) == [kind |-> k, id |-> i, tok |-> tok, stale |-> FALSE, loggedOut |-> FALSE]
NoReq == Req("none", 0, NoToken)
FreshId(reqs) ==
  CHOOSE i \in 1..(Cardinality(reqs) + 1) :
    /\ \A r \in reqs : r.id # i
    /\ \A j \in 1..(i - 1) : \E r \in reqs : r.id = j
MarkStale(reqs, changed) ==
  IF changed THEN { [r EXCEPT !.stale = TRUE] : r \in reqs } ELSE reqs
MarkLoggedOut(reqs) == { [r EXCEPT !.loggedOut = TRUE] : r \in reqs }
Pending == { r \in inflight : r.kind \in {"login", "register"} }

\* the body of a response: {token, user} of the POSTs, the user of GET /auth/me
Resp(t, u) == [token |-> t, user |-> u]
NoResp == Resp(NoToken, None)

\* the step just taken: its name, the request it issued or completed, the
\* data it received (the response body; for updateUser its argument userData),
\* the value it returned to its caller (out), whether it threw, the
\* Authorization header it sent
Ev(e, r, d, o, th, h) ==
  [ev |-> e, req |-> r, resp |-> d, out |-> o, threw |-> th, header |-> h]

\* fetchUser without its `if (token)` test: the request goes out for a null token too
fetchUserRequestsUnguarded(tok, reqs) == { Req("me", FreshId(reqs), tok) }

\* useEffect(() => { fetchUser() }, [token, api]): the part of fetchUser up to
\* its await, run for the token of the committed render
fetchUserRequests(tok, reqs) ==
  IF tok # NoToken THEN { Req("me", FreshId(reqs), tok) } ELSE {}
\* fetchUser with setLoading(false) moved inside `if (token)`: a null token
\* leaves loading as it was
fetchUserLoadingKept(tok, l) == l
fetchUserLoading(tok, l) == IF tok # NoToken THEN l ELSE FALSE

\* the re-render after a handler: when the committed token differs from the one
\* of the previous render the effect runs again and may issue GET /auth/me
RenderEffect(tok2, reqs) ==
  LET new == IF tok2 # token THEN fetchUserRequests(tok2, reqs) ELSE {} IN
  /\ inflight' = reqs \cup new
  /\ meIssued' = meIssued + Cardinality(new)

\* ------------------------------------------------------------- AuthPage
\* error.response?.data?.detail of a rejected POST: a message of the backend,
\* or none (no response, or a body without detail)
NoDetail == "undefined"
Details == {"Invalid credentials", NoDetail}
NoToast == "none"

\* the catch of handleSubmit with toast.error(error.response?.data?.detail)
toastErrorNoFallback(detail) == detail

\* toast.error(error.response?.data?.detail || 'Something went wrong')
toastError(detail) ==
  IF detail = NoDetail \/ detail = "" THEN "Something went wrong" ELSE detail

\* AuthPage: `awaits` is the id of the request the handleSubmit of the mounted
\* form is waiting for, 0 when its `loading` flag is false (useState(false));
\* `toast` is the toast the step just taken raised, `caught` the error detail
\* the catch of handleSubmit received in it, `navigated` whether the step
\* called navigate('/')
AuthPageIs(aw, t, c, n) == [awaits |-> aw, toast |-> t, caught |-> c, navigated |-> n]
NoAuthPage == AuthPageIs(0, NoToast, None, FALSE)

\* the route /auth renders AuthPage
AuthPageShown == location = "/auth" /\ PublicRoute = "children"

\* a step outside AuthPage: a form that stays mounted keeps its flag; a form
\* mounted by the step starts with loading = false
AuthPageIdle ==
  authPage' = AuthPageIs(IF AuthPageShown /\ AuthPageShown' THEN authPage.awaits ELSE 0,
                         NoToast, None, FALSE)

\* handleSubmit after its await, success: toast.success(message); navigate('/')
\* leaves the route of AuthPage, whose state is dropped
handleSubmitDone(message) == authPage' = AuthPageIs(0, message, None, TRUE)

\* handleSubmit as try / finally without the catch: the error passes through
handleSubmitNoCatch(r, detail) ==
  authPage' = AuthPageIs(IF AuthPageShown /\ AuthPageShown' /\ authPage.awaits # r.id
                           THEN authPage.awaits ELSE 0,
                         NoToast, None, FALSE)

\* handleSubmit after its await, failure: the catch raises the error toast and
\* finally calls setLoading(false), which reaches the form only if the form
\* that submitted r is still the mounted one
handleSubmitCatch(r, detail) ==
  authPage' = AuthPageIs(IF AuthPageShown /\ AuthPageShown' /\ authPage.awaits # r.id
                           THEN authPage.awaits ELSE 0,
                         toastError(detail), Some(detail), FALSE)

\* --------------------------------------------------------- MessagesPage
NoConv == "none"                        \* conversationId undefined, selectedConversation null
Listed == {"A", "B"}                    \* ids of the conversations GET /conversations returns
Unlisted == "X"                         \* a conversation id that list does not contain
ConvIds == Listed \cup {Unlisted}

\* response.data of GET /conversations/:id/messages: the messages of conversation c
Msgs(c) == << [conversation_id |-> c] >>

\* a request of the page awaiting its response: "conversations" (fetchConversations),
\* "messages" (fetchMessages) or "direct" (the GET of the selection effect);
\* live while the page instance that issued it is mounted
Fetch(i, k, c) == [id |-> i, kind |-> k, conv |-> c, live |-> TRUE]

\* an interval of setInterval calling fetchMessages(conv) of the instance that set it
Timer(i, c) == [id |-> i, conv |-> c, live |-> TRUE]

\* the page is unmounted: its requests and intervals outlive its state
Orphaned(things) == { [x EXCEPT !.live = FALSE] : x \in things }

\* the cleanup of the polling effect without its clearInterval
clearIntervalOmitted(ts, current) == ts

\* the cleanup of the polling effect: if (pollInterval.current) clearInterval(pollInterval.current)
clearInterval(ts, current) == { t \in ts : t.id # current }

\* the state of a page that is not rendered
NoMessagesPage ==
  /\ mounted = FALSE
  /\ conversationId = NoConv
  /\ conversations = {}
  /\ selectedConversation = NoConv
  /\ messages = << >>
  /\ pollInterval = 0
  /\ timers = {}
  /\ timerSeq = 0
  /\ fetches = {}

\* ------------------------------------------------------------- PostCard
\* the post prop: is_liked and likes_count as the backend sent them
Posts == { [is_liked |-> FALSE, likes_count |-> 0], [is_liked |-> FALSE, likes_count |-> 1],
           [is_liked |-> TRUE, likes_count |-> 1], [is_liked |-> TRUE, likes_count |-> 2] }

\* useState(post.is_liked), useState(post.likes_count)
PostCardOf(p) ==
  /\ post = p
  /\ liked = p.is_liked
  /\ likesCount = p.likes_count
  /\ likeReqs = {}
  /\ clicks = 0

\* ------------------------------------------------------------------ Init
\* AuthProvider's first render: the three useState initialisers
Init ==
  /\ storage \in {NoToken} \cup Tokens
  /\ token = storage
  /\ user = None
  /\ loading = TRUE
  /\ pc = "mount"
  /\ inflight = {}
  /\ meIssued = 0
  /\ ops = 0
  /\ held = None
  /\ trail = "none"
  /\ location \in Paths
  /\ last = Ev("init", NoReq, NoResp, None, FALSE, << >>)
  /\ authPage = NoAuthPage
  /\ NoMessagesPage
  /\ PostCardOf([is_liked |-> FALSE, likes_count |-> 0])

\* --------------------------------------------------------------- actions
\* the effect after the first render: fetchUser() up to its await, or to its end
mountEffect ==
  /\ pc = "mount"
  /\ pc' = "ready"
  /\ inflight' = inflight \cup fetchUserRequests(token, inflight)
  /\ meIssued' = meIssued + Cardinality(fetchUserRequests(token, inflight))
  /\ loading' = fetchUserLoading(token, loading)
  /\ last' = Ev("mountEffect", NoReq, NoResp, None, FALSE, << >>)
  /\ UNCHANGED << user, token, storage, ops, held, trail >>
  /\ RouteFrom
  /\ AuthPageIdle
  /\ UNCHANGED views

\* fetchUser whose try branch falls through into the cleanup of the catch
fetchUserResolvedThenClears(r, u) ==
  /\ r \in inflight /\ r.kind = "me"
  /\ storage' = NoToken
  /\ token' = NoToken
  /\ user' = None
  /\ loading' = FALSE
  /\ RenderEffect(NoToken, inflight \ {r})
  /\ last' = Ev("fetchUserResolved", r, Resp(NoToken, Some(u)), None, FALSE, << >>)
  /\ UNCHANGED << pc, ops, held, trail >>
  /\ RouteFrom
  /\ AuthPageIdle
  /\ UNCHANGED views

\* fetchUser whose try branch returns before setLoading(false)
fetchUserResolvedKeepsLoading(r, u) ==
  /\ r \in inflight /\ r.kind = "me"
  /\ user' = Some(u)
  /\ inflight' = inflight \ {r}
  /\ last' = Ev("fetchUserResolved", r, Resp(NoToken, Some(u)), None, FALSE, << >>)
  /\ UNCHANGED << token, loading, storage, pc, meIssued, ops, held, trail >>
  /\ RouteFrom
  /\ AuthPageIdle
  /\ UNCHANGED views

\* fetchUser after its await, try branch: setUser(response.data); setLoading(false)
fetchUserResolved(r, u) ==
  /\ r \in inflight /\ r.kind = "me"
  /\ user' = Some(u)
  /\ loading' = FALSE
  /\ inflight' = inflight \ {r}
  /\ last' = Ev("fetchUserResolved", r, Resp(NoToken, Some(u)), None, FALSE, << >>)
  /\ UNCHANGED << token, storage, pc, meIssued, ops, held, trail >>
  /\ RouteFrom
  /\ AuthPageIdle
  /\ UNCHANGED views

\* fetchUser with setLoading(false) inside the try: a failed check leaves loading
fetchUserRejectedKeepsLoading(r) ==
  /\ r \in inflight /\ r.kind = "me"
  /\ storage' = NoToken
  /\ token' = NoToken
  /\ user' = None
  /\ RenderEffect(NoToken, inflight \ {r})
  /\ last' = Ev("fetchUserRejected", r, NoResp, None, FALSE, << >>)
  /\ UNCHANGED << loading, pc, ops, held, trail >>
  /\ RouteFrom
  /\ AuthPageIdle
  /\ UNCHANGED views

\* fetchUser whose catch branch omits localStorage.removeItem
fetchUserRejectedKeepsStorage(r) ==
  /\ r \in inflight /\ r.kind = "me"
  /\ token' = NoToken
  /\ user' = None
  /\ loading' = FALSE
  /\ RenderEffect(NoToken, inflight \ {r})
  /\ last' = Ev("fetchUserRejected", r, NoResp, None, FALSE, << >>)
  /\ UNCHANGED << storage, pc, ops, held, trail >>
  /\ RouteFrom
  /\ AuthPageIdle
  /\ UNCHANGED views

\* fetchUser after its await, catch branch, then setLoading(false); the effect
\* re-runs for the null token and issues nothing
fetchUserRejected(r) ==
  /\ r \in inflight /\ r.kind = "me"
  /\ storage' = NoToken
  /\ token' = NoToken
  /\ user' = None
  /\ loading' = FALSE
  /\ RenderEffect(NoToken, inflight \ {r})
  /\ last' = Ev("fetchUserRejected", r, NoResp, None, FALSE, << >>)
  /\ UNCHANGED << pc, ops, held, trail >>
  /\ RouteFrom
  /\ AuthPageIdle
  /\ UNCHANGED views

\* AuthPage.handleSubmit with isLogin: login(email, password) up to its await.
\* AuthPage is the child of PublicRoute.
login ==
  /\ pc = "ready" /\ PublicRoute = "children"
  /\ ops < MaxOps /\ Cardinality(Pending) < MaxPending
  /\ authPage.awaits = 0
  /\ inflight' = inflight \cup { Req("login", FreshId(inflight), token) }
  /\ ops' = ops + 1
  /\ last' = Ev("login", Req("login", FreshId(inflight), token), NoResp, None, FALSE, Bearer(token))
  /\ UNCHANGED << user, token, loading, storage, pc, meIssued, held, trail >>
  /\ UNCHANGED location
  /\ authPage' = AuthPageIs(FreshId(inflight), NoToast, None, FALSE)
  /\ UNCHANGED views

\* login without its localStorage.setItem: the new token lives in memory only
loginResolvedNoPersist(r, t, u) ==
  /\ r \in inflight /\ r.kind = "login"
  /\ token' = t
  /\ user' = Some(u)
  /\ loading' = IF t # token THEN fetchUserLoading(t, loading) ELSE loading
  /\ RenderEffect(t, MarkStale(inflight \ {r}, t # token))
  /\ trail' = "login"
  /\ last' = Ev("loginResolved", r, Resp(t, Some(u)), Some(u), FALSE, << >>)
  /\ UNCHANGED << storage, pc, ops, held >>
  /\ RouteTo("/")
  /\ handleSubmitDone("Welcome back!")
  /\ UNCHANGED views

\* login after its await, the POST answered {token: t, user: u}
loginResolved(r, t, u) ==
  /\ r \in inflight /\ r.kind = "login"
  /\ storage' = t
  /\ token' = t
  /\ user' = Some(u)
  /\ loading' = IF t # token THEN fetchUserLoading(t, loading) ELSE loading
  /\ RenderEffect(t, MarkStale(inflight \ {r}, t # token))
  /\ trail' = "login"
  /\ last' = Ev("loginResolved", r, Resp(t, Some(u)), Some(u), FALSE, << >>)
  /\ UNCHANGED << pc, ops, held >>
  /\ RouteTo("/")
  /\ handleSubmitDone("Welcome back!")
  /\ UNCHANGED views

\* login with the catch branch of fetchUser around its await: a failed POST
\* tears the session down before the error is rethrown
loginRejectedClears(r) ==
  /\ r \in inflight /\ r.kind = "login"
  /\ storage' = NoToken
  /\ token' = NoToken
  /\ user' = None
  /\ loading' = IF NoToken # token THEN fetchUserLoading(NoToken, loading) ELSE loading
  /\ RenderEffect(NoToken, inflight \ {r})
  /\ last' = Ev("loginRejected", r, NoResp, None, TRUE, << >>)
  /\ UNCHANGED << pc, ops, held, trail >>
  /\ RouteFrom
  /\ \E detail \in Details : handleSubmitCatch(r, detail)
  /\ UNCHANGED views

\* the POST of login failed: the await throws, login rejects to its caller
loginRejected(r) ==
  /\ r \in inflight /\ r.kind = "login"
  /\ inflight' = inflight \ {r}
  /\ last' = Ev("loginRejected", r, NoResp, None, TRUE, << >>)
  /\ UNCHANGED << user, token, loading, storage, pc, meIssued, ops, held, trail >>
  /\ RouteFrom
  /\ \E detail \in Details : handleSubmitCatch(r, detail)
  /\ UNCHANGED views

\* AuthPage.handleSubmit with !isLogin: register(...) up to its await
register ==
  /\ pc = "ready" /\ PublicRoute = "children"
  /\ ops < MaxOps /\ Cardinality(Pending) < MaxPending
  /\ authPage.awaits = 0
  /\ inflight' = inflight \cup { Req("register", FreshId(inflight), token) }
  /\ ops' = ops + 1
  /\ last' = Ev("register", Req("register", FreshId(inflight), token), NoResp, None, FALSE, Bearer(token))
  /\ UNCHANGED << user, token, loading, storage, pc, meIssued, held, trail >>
  /\ UNCHANGED location
  /\ authPage' = AuthPageIs(FreshId(inflight), NoToast, None, FALSE)
  /\ UNCHANGED views

\* register without its setUser(userData): the identity is left to the
\* identity fetch that the token change starts
registerResolvedNoUser(r, t, u) ==
  /\ r \in inflight /\ r.kind = "register"
  /\ storage' = t
  /\ token' = t
  /\ loading' = IF t # token THEN fetchUserLoading(t, loading) ELSE loading
  /\ RenderEffect(t, MarkStale(inflight \ {r}, t # token))
  /\ trail' = "none"
  /\ last' = Ev("registerResolved", r, Resp(t, Some(u)), Some(u), FALSE, << >>)
  /\ UNCHANGED << user, pc, ops, held >>
  /\ RouteTo("/")
  /\ handleSubmitDone("Account created successfully!")
  /\ UNCHANGED views

\* register after its await, the POST answered {token: t, user: u}
registerResolved(r, t, u) ==
  /\ r \in inflight /\ r.kind = "register"
  /\ storage' = t
  /\ token' = t
  /\ user' = Some(u)
  /\ loading' = IF t # token THEN fetchUserLoading(t, loading) ELSE loading
  /\ RenderEffect(t, MarkStale(inflight \ {r}, t # token))
  /\ trail' = "none"
  /\ last' = Ev("registerResolved", r, Resp(t, Some(u)), Some(u), FALSE, << >>)
  /\ UNCHANGED << pc, ops, held >>
  /\ RouteTo("/")
  /\ handleSubmitDone("Account created successfully!")
  /\ UNCHANGED views

\* the POST of register failed
registerRejected(r) ==
  /\ r \in inflight /\ r.kind = "register"
  /\ inflight' = inflight \ {r}
  /\ last' = Ev("registerRejected", r, NoResp, None, TRUE, << >>)
  /\ UNCHANGED << user, token, loading, storage, pc, meIssued, ops, held, trail >>
  /\ RouteFrom
  /\ \E detail \in Details : handleSubmitCatch(r, detail)
  /\ UNCHANGED views

\* logout without its localStorage.removeItem
logoutKeepsStorage ==
  /\ pc = "ready" /\ ProtectedRoute = "children"
  /\ ops < MaxOps
  /\ token' = NoToken
  /\ user' = None
  /\ loading' = IF NoToken # token THEN fetchUserLoading(NoToken, loading) ELSE loading
  /\ RenderEffect(NoToken, MarkLoggedOut(MarkStale(inflight, NoToken # token)))
  /\ ops' = ops + 1
  /\ trail' = IF trail \in {"login", "login-logout"} THEN "login-logout" ELSE trail
  /\ last' = Ev("logout", NoReq, NoResp, None, FALSE, << >>)
  /\ UNCHANGED << storage, pc, held >>
  /\ RouteTo("/auth")
  /\ AuthPageIdle
  /\ UNCHANGED views

\* the logout button of MainLayout, which every protected page renders:
\* removeItem, setToken(null), setUser(null), then the re-render and its effect
logout ==
  /\ pc = "ready" /\ ProtectedRoute = "children"
  /\ ops < MaxOps
  /\ storage' = NoToken
  /\ token' = NoToken
  /\ user' = None
  /\ loading' = IF NoToken # token THEN fetchUserLoading(NoToken, loading) ELSE loading
  /\ RenderEffect(NoToken, MarkLoggedOut(MarkStale(inflight, NoToken # token)))
  /\ ops' = ops + 1
  /\ trail' = IF trail \in {"login", "login-logout"} THEN "login-logout" ELSE trail
  /\ last' = Ev("logout", NoReq, NoResp, None, FALSE, << >>)
  /\ UNCHANGED << pc, held >>
  /\ RouteTo("/auth")
  /\ AuthPageIdle
  /\ UNCHANGED views

\* updateUser(userData): setUser(prev => ({ ...prev, ...userData }))
updateUser(d) ==
  /\ pc = "ready"
  /\ ops < MaxOps
  /\ user' = Some(Merge(user, d))
  /\ ops' = ops + 1
  /\ trail' = "none"
  /\ last' = Ev("updateUser", NoReq, Resp(NoToken, Some(d)), None, FALSE, << >>)
  /\ UNCHANGED << token, loading, storage, pc, inflight, meIssued, held >>
  /\ RouteFrom
  /\ AuthPageIdle
  /\ UNCHANGED views

\* a rendered view starts an asynchronous handler, which closes over the api
\* function of the render it was created in (useCallback(..., [token]))
capture ==
  /\ pc = "ready" /\ ~loading
  /\ held' = Some(token)
  /\ last' = Ev("capture", NoReq, NoResp, None, FALSE, << >>)
  /\ UNCHANGED << user, token, loading, storage, pc, inflight, meIssued, ops, trail >>
  /\ UNCHANGED location
  /\ AuthPageIdle
  /\ UNCHANGED views

\* that handler, resumed after one of its awaits, calls the api() it holds
heldCall ==
  /\ held # None
  /\ last' = Ev("heldCall", NoReq, NoResp, None, FALSE, Bearer(held[1]))
  /\ UNCHANGED << user, token, loading, storage, pc, inflight, meIssued, ops, held, trail >>
  /\ UNCHANGED location
  /\ AuthPageIdle
  /\ UNCHANGED views

\* the user moves to another URL of the application (a link of MainLayout,
\* the history buttons); the router renders the matching route
navigate(p) ==
  /\ pc = "ready"
  /\ p # location
  /\ last' = Ev("navigate", NoReq, NoResp, None, FALSE, << >>)
  /\ UNCHANGED << user, token, loading, storage, pc, inflight, meIssued, ops, held, trail >>
  /\ RouteTo(p)
  /\ authPage' = NoAuthPage
  /\ UNCHANGED views

\* the steps of the views that exist in the sources: AuthProvider's effect, the
\* login / register form, the logout button, handlers holding an api function
NextCalled ==
  \/ mountEffect
  \/ \E r \in inflight, u \in Users : fetchUserResolved(r, u)
  \/ \E r \in inflight : fetchUserRejected(r)
  \/ login
  \/ \E r \in inflight, t \in Tokens, u \in Users : loginResolved(r, t, u)
  \/ \E r \in inflight : loginRejected(r)
  \/ register
  \/ \E r \in inflight, t \in Tokens, u \in Users : registerResolved(r, t, u)
  \/ \E r \in inflight : registerRejected(r)
  \/ logout
  \/ capture
  \/ heldCall
  \/ \E p \in Paths : navigate(p)

\* updateUser is exported through the context; no view in the sources calls it
Next ==
  \/ NextCalled
  \/ \E d \in Patches : updateUser(d)

\* AuthProvider renders again after a step that changed user, token or
\* loading: the argument of useState(localStorage.getItem('token')) is
\* evaluated in every render, its value is used in the first only
getItemCalled == << user, token, loading >>' # << user, token, loading >>

\* a response to a GET /auth/me arrives
fetchUserSettled ==
  \/ \E r \in inflight, u \in Users : fetchUserResolved(r, u)
  \/ \E r \in inflight : fetchUserRejected(r)

\* every operation the context exports, called by any consumer
Spec == Init /\ [][Next]_vars

\* the operations the views in the sources call
SpecCalled == Init /\ [][NextCalled]_vars

\* Spec with its scheduling: React runs the effect of a committed render, and
\* every GET /auth/me is answered (the assumption under which the session is
\* said to leave the resolving state)
NextSession ==
  \/ mountEffect
  \/ fetchUserSettled
  \/ login
  \/ \E r \in inflight, t \in Tokens, u \in Users : loginResolved(r, t, u)
  \/ \E r \in inflight : loginRejected(r)
  \/ register
  \/ \E r \in inflight, t \in Tokens, u \in Users : registerResolved(r, t, u)
  \/ \E r \in inflight : registerRejected(r)
  \/ logout

SpecLive == Init /\ [][NextSession]_vars /\ WF_vars(mountEffect) /\ WF_vars(fetchUserSettled)

\* ======================================================== MessagesPage
\* The page inside a session that stays authenticated: the identity check of
\* the start has succeeded for token "T1" and no session operation is called.
SignedIn ==
  /\ storage = "T1" /\ token = "T1"
  /\ user = Some([id |-> "1", username |-> "a"])
  /\ loading = FALSE
  /\ pc = "ready"
  /\ inflight = {}
  /\ meIssued = 1
  /\ ops = 0
  /\ held = None
  /\ trail = "none"
  /\ location = "/"
  /\ last = Ev("fetchUserResolved", Req("me", 1, "T1"),
               Resp(NoToken, Some([id |-> "1", username |-> "a"])), None, FALSE, << >>)
  /\ authPage = NoAuthPage

\* the render after conversationId or conversations changed: the selection
\* effect (lines 59-79) for the id cid and the list convs, then, when it changed
\* selectedConversation, the cleanup and the body of the polling effect
\* (lines 82-93); reqs are the requests pending before the effects run
Effects(cid, convs, reqs) ==
  LET found == cid # NoConv /\ cid \in convs
      direct == cid # NoConv /\ cid \notin convs /\ convs # {}
      sel == IF cid = NoConv THEN NoConv
             ELSE IF found THEN cid ELSE selectedConversation
      new == IF found THEN { Fetch(FreshId(reqs), "messages", cid) }
             ELSE IF direct THEN { Fetch(FreshId(reqs), "direct", cid) }
             ELSE {}
      changed == sel # selectedConversation
      cleared == IF changed THEN clearInterval(timers, pollInterval) ELSE timers
      create == changed /\ sel # NoConv
  IN /\ Cardinality(reqs \cup new) <= MaxFetches
     /\ create => timerSeq < MaxTimers
     /\ selectedConversation' = sel
     /\ messages' = IF cid = NoConv THEN << >> ELSE messages
     /\ fetches' = reqs \cup new
     /\ timers' = IF create THEN cleared \cup { Timer(timerSeq + 1, sel) } ELSE cleared
     /\ pollInterval' = IF create THEN timerSeq + 1 ELSE pollInterval
     /\ timerSeq' = IF create THEN timerSeq + 1 ELSE timerSeq

\* the first render of a new instance at /messages or /messages/cid and its
\* effects: init() issues GET /conversations; the list is still empty, so the
\* selection effect finds nothing and the polling effect sets no interval
FirstRender(cid, reqs) ==
  /\ mounted' = TRUE
  /\ conversationId' = cid
  /\ conversations' = {}
  /\ selectedConversation' = NoConv
  /\ messages' = << >>
  /\ pollInterval' = 0
  /\ fetches' = reqs \cup { Fetch(FreshId(reqs), "conversations", NoConv) }
  /\ UNCHANGED << timers, timerSeq >>

\* the router renders MessagesPage
pageMount(cid) ==
  /\ ~mounted
  /\ Cardinality(fetches) < MaxFetches
  /\ FirstRender(cid, fetches)
  /\ UNCHANGED << sessionVars, postVars >>

\* fetchConversations after its await: setConversations(response.data), then
\* the selection effect for the new list
conversationsResolved(f) ==
  /\ f \in fetches /\ f.kind = "conversations"
  /\ IF f.live
       THEN /\ conversations' = Listed
            /\ Effects(conversationId, Listed, fetches \ {f})
            /\ UNCHANGED << mounted, conversationId >>
       ELSE /\ fetches' = fetches \ {f}
            /\ UNCHANGED << mounted, conversationId, conversations, selectedConversation,
                            messages, pollInterval, timers, timerSeq >>
  /\ UNCHANGED << sessionVars, postVars >>

\* fetchConversations, catch branch: console.error
conversationsRejected(f) ==
  /\ f \in fetches /\ f.kind = "conversations"
  /\ fetches' = fetches \ {f}
  /\ UNCHANGED << mounted, conversationId, conversations, selectedConversation,
                  messages, pollInterval, timers, timerSeq >>
  /\ UNCHANGED << sessionVars, postVars >>

\* navigate(`/messages/${c}`): a click in the list, or a link from another view
open(c) ==
  /\ mounted /\ c # conversationId
  /\ conversationId' = c
  /\ Effects(c, conversations, fetches)
  /\ UNCHANGED << mounted, conversations >>
  /\ UNCHANGED << sessionVars, postVars >>

\* navigate('/messages'): the back button of the chat
back ==
  /\ mounted /\ conversationId # NoConv
  /\ conversationId' = NoConv
  /\ Effects(NoConv, conversations, fetches)
  /\ UNCHANGED << mounted, conversations >>
  /\ UNCHANGED << sessionVars, postVars >>

\* an interval fires: fetchMessages(selectedConversation.id) up to its await
tick(t) ==
  /\ t \in timers
  /\ Cardinality(fetches) < MaxFetches
  /\ fetches' = fetches \cup { [Fetch(FreshId(fetches), "messages", t.conv) EXCEPT !.live = t.live] }
  /\ UNCHANGED << mounted, conversationId, conversations, selectedConversation,
                  messages, pollInterval, timers, timerSeq >>
  /\ UNCHANGED << sessionVars, postVars >>

\* fetchMessages after its await, or the .then of the direct GET:
\* setMessages(response.data), whatever conversation is selected by now
fetchMessagesResolved(f) ==
  /\ f \in fetches /\ f.kind \in {"messages", "direct"}
  /\ fetches' = fetches \ {f}
  /\ messages' = IF f.live THEN Msgs(f.conv) ELSE messages
  /\ UNCHANGED << mounted, conversationId, conversations, selectedConversation,
                  pollInterval, timers, timerSeq >>
  /\ UNCHANGED << sessionVars, postVars >>

\* fetchMessages, catch branch: console.error
fetchMessagesRejected(f) ==
  /\ f \in fetches /\ f.kind = "messages"
  /\ fetches' = fetches \ {f}
  /\ UNCHANGED << mounted, conversationId, conversations, selectedConversation,
                  messages, pollInterval, timers, timerSeq >>
  /\ UNCHANGED << sessionVars, postVars >>

\* the .catch of the direct GET: navigate('/messages'), which the router
\* applies to the page that is mounted now, or mounts the page
directRejected(f) ==
  /\ f \in fetches /\ f.kind = "direct"
  /\ IF ~mounted
       THEN FirstRender(NoConv, fetches \ {f})
       ELSE /\ conversationId' = NoConv
            /\ IF conversationId # NoConv
                 THEN Effects(NoConv, conversations, fetches \ {f})
                 ELSE /\ fetches' = fetches \ {f}
                      /\ UNCHANGED << selectedConversation, messages, pollInterval,
                                      timers, timerSeq >>
            /\ UNCHANGED << mounted, conversations >>
  /\ UNCHANGED << sessionVars, postVars >>

\* the router leaves the page: the cleanup of the polling effect runs, the
\* state of the instance is dropped, its requests stay in flight
pageUnmount ==
  /\ mounted
  /\ mounted' = FALSE
  /\ timers' = Orphaned(clearInterval(timers, pollInterval))
  /\ fetches' = Orphaned(fetches)
  /\ conversationId' = NoConv
  /\ conversations' = {}
  /\ selectedConversation' = NoConv
  /\ messages' = << >>
  /\ pollInterval' = 0
  /\ UNCHANGED timerSeq
  /\ UNCHANGED << sessionVars, postVars >>

NextMessages ==
  \/ \E c \in {NoConv} \cup ConvIds : pageMount(c)
  \/ \E f \in fetches : conversationsResolved(f)
  \/ \E f \in fetches : conversationsRejected(f)
  \/ \E c \in ConvIds : open(c)
  \/ back
  \/ \E t \in timers : tick(t)
  \/ \E f \in fetches : fetchMessagesResolved(f)
  \/ \E f \in fetches : fetchMessagesRejected(f)
  \/ \E f \in fetches : directRejected(f)
  \/ pageUnmount

InitMessages ==
  /\ SignedIn
  /\ NoMessagesPage
  /\ PostCardOf([is_liked |-> FALSE, likes_count |-> 0])

SpecMessages == InitMessages /\ [][NextMessages]_vars

\* ============================================================ PostCard
\* One card inside the same authenticated session.  The backend is not part
\* of the sources: each request may be answered with success or with an error.

\* a click on the like button: handleLike up to its await, the request chosen
\* by the `liked` of the render the click happened in
handleLike ==
  /\ clicks < MaxClicks
  /\ likeReqs' = likeReqs \cup { [id |-> FreshId(likeReqs),
                                   method |-> IF liked THEN "delete" ELSE "post"] }
  /\ clicks' = clicks + 1
  /\ UNCHANGED << post, liked, likesCount >>
  /\ UNCHANGED << sessionVars, messagesVars >>

\* handleLike after its await: setLiked(false); setLikesCount(prev => prev - 1)
\* after the DELETE, setLiked(true); setLikesCount(prev => prev + 1) after the POST;
\* onUpdate hands the parent a copy of the post, which the state of the card,
\* initialised from the prop once, does not read again
handleLikeResolved(r) ==
  /\ r \in likeReqs
  /\ likeReqs' = likeReqs \ {r}
  /\ liked' = (r.method = "post")
  /\ likesCount' = IF r.method = "post" THEN likesCount + 1 ELSE likesCount - 1
  /\ UNCHANGED << post, clicks >>
  /\ UNCHANGED << sessionVars, messagesVars >>

\* handleLike, catch branch: toast.error(...)
handleLikeRejected(r) ==
  /\ r \in likeReqs
  /\ likeReqs' = likeReqs \ {r}
  /\ UNCHANGED << post, liked, likesCount, clicks >>
  /\ UNCHANGED << sessionVars, messagesVars >>

NextPostCard ==
  \/ handleLike
  \/ \E r \in likeReqs : handleLikeResolved(r)
  \/ \E r \in likeReqs : handleLikeRejected(r)

InitPostCard ==
  /\ SignedIn
  /\ NoMessagesPage
  /\ \E p \in Posts : PostCardOf(p)

SpecPostCard == InitPostCard /\ [][NextPostCard]_vars

\* ================================================================ claims

\* C1: in every reachable state the route gate sees the session as
\* authenticated (loading = false and user present) if and only if both the
\* in-memory token and the identity are present.
C1_GateIffTokenAndIdentity ==
  (~loading /\ user # None) <=> (token # NoToken /\ user # None)

\* C2: the successful response of a login that was in flight when logout() was
\* called is discarded: arriving in the logged-out session it leaves the status
\* anonymous, token and identity absent and nothing persisted.
C2_LogoutWinsOverLogin ==
  [][\A r \in inflight :
       ( /\ r.kind = "login" /\ r.loggedOut
         /\ last'.ev = "loginResolved" /\ last'.req = r
         /\ user = None /\ token = NoToken /\ storage = NoToken )
       => (user' = None /\ token' = NoToken /\ storage' = NoToken /\ ~loading')]_vars

\* C3: a response (success or failure) to a GET /auth/me that arrives after
\* login, register or logout changed the session token since the request was
\* issued is never applied: identity, token, persisted token and loading keep
\* their values.
C3_StaleIdentityResponseNotApplied ==
  [][\A r \in inflight :
       ( /\ r.kind = "me" /\ r.stale
         /\ last'.ev \in {"fetchUserResolved", "fetchUserRejected"} /\ last'.req = r )
       => UNCHANGED session]_vars

\* C4: a protected view is rendered only while a token is present in memory and
\* in persistent storage together with an identity.
C4_ProtectedOnlyWithValidSession ==
  ProtectedRoute = "children"
    => (token # NoToken /\ storage # NoToken /\ user # None)

\* C5: after a successful login followed by logout, once every pending response
\* has arrived, the status is anonymous (identity absent, loading false) and no
\* token remains in memory or in persistent storage.
C5_LoginLogoutEndsAnonymous ==
  (trail = "login-logout" /\ inflight = {})
    => (user = None /\ ~loading /\ token = NoToken /\ storage = NoToken)

\* C6: a request made through an api function the caller already holds carries
\* the session's current token at the moment of the call.
C6_HeldApiCarriesCurrentToken ==
  last.ev = "heldCall" => last.header = Bearer(token)

\* C7: a login call that fails leaves identity, in-memory token, loading and the
\* persisted token as they were: neither the call nor the rejection of its POST
\* changes any of them.
C7_FailedLoginChangesNothing ==
  [][last'.ev \in {"login", "loginRejected"} => UNCHANGED session]_vars

\* a login is rejected while the session holds an identity
C7_Witness ==
  last.ev = "loginRejected" /\ last.threw /\ last.req.kind = "login" /\ user # None

\* C8: when login succeeds with {token: T, user: U}, on completion the persisted
\* token and the in-memory token are T, the identity is U, the route gate sees
\* the session as authenticated, U is returned, and api() carries bearer T.
C8_LoginSuccessInstallsSession ==
  last.ev = "loginResolved"
    => /\ storage = last.resp.token
       /\ token = last.resp.token
       /\ user = last.resp.user
       /\ ~loading /\ ProtectedRoute = "children"
       /\ last.out = last.resp.user /\ ~last.threw
       /\ api = << "Bearer", last.resp.token >>

C8_Witness ==
  /\ last.ev = "loginResolved"
  /\ last.resp.token = "T2"
  /\ token = "T2" /\ user # None
  /\ \E r \in inflight : r.kind = "me" /\ r.tok = "T2"

\* C9: logout() clears the persisted token, the in-memory token and the identity
\* in one step, leaves the status anonymous, and issues no network request,
\* neither itself nor through the effect that the token change triggers.
C9_LogoutClearsWithoutRequest ==
  [][last'.ev = "logout"
       => /\ storage' = NoToken /\ token' = NoToken /\ user' = None /\ ~loading'
          /\ meIssued' = meIssued
          /\ { r.id : r \in inflight' } = { r.id : r \in inflight }]_vars

C9_Witness ==
  /\ last.ev = "logout"
  /\ \E r \in inflight : r.kind = "me" /\ r.stale /\ r.loggedOut

\* C10: over any sequence of operations the Session Manager issues at most one
\* GET /auth/me identity-fetch request in total.
C10_AtMostOneIdentityFetch == meIssued <= 1

\* C11: when the identity fetch issued at start for a persisted token succeeds
\* with record U and no operation was called meanwhile, the gates see an
\* authenticated session with identity U, and the in-memory and the persisted
\* token are still the token the request was issued for.
C11_InitializeSuccessAuthenticates ==
  (last.ev = "fetchUserResolved" /\ ops = 0)
    => /\ user = last.resp.user /\ user # None
       /\ ~loading /\ ProtectedRoute = "children"
       /\ token = last.req.tok /\ storage = last.req.tok /\ token \in Tokens

C11_Witness ==
  /\ last.ev = "fetchUserResolved" /\ ops = 0
  /\ token = "T2" /\ user = Some([id |-> "2", username |-> "b"])

\* C12: when an identity fetch fails, whatever the reason, the persisted token
\* is removed, the in-memory token and the identity are absent and loading is
\* false; the effect that runs again for the now absent token issues no
\* request, as at a start without a persisted token.
C12_FailedIdentityCheckForcesAnonymous ==
  [][last'.ev = "fetchUserRejected"
       => /\ storage' = NoToken /\ token' = NoToken /\ user' = None /\ ~loading'
          /\ meIssued' = meIssued
          /\ { r.id : r \in inflight' } \subseteq { r.id : r \in inflight }]_vars

\* the identity check of the start fails
C12_Witness ==
  /\ last.ev = "fetchUserRejected" /\ ops = 0 /\ meIssued = 1
  /\ last.req.tok \in Tokens /\ storage = NoToken /\ inflight = {}

\* C13: when no token is persisted at process start, the effect of the first
\* render issues no request and leaves the session anonymous (identity and token
\* absent, loading false), and a protected view redirects to /auth.
C13_NoPersistedTokenStartsAnonymous ==
  (last.ev = "mountEffect" /\ storage = NoToken)
    => /\ inflight = {} /\ meIssued = 0
       /\ user = None /\ token = NoToken /\ ~loading
       /\ ProtectedRoute = "redirect:/auth"

C13_Witness == last.ev = "mountEffect" /\ storage = NoToken /\ pc = "ready"

\* C14 as stated: loading is true only while the identity check of the start is
\* in flight, and a session created without a persisted token is never in the
\* resolving state.
C14_ResolvingOnlyDuringInitialCheck ==
  /\ (meIssued = 0 /\ token = NoToken) => ~loading
  /\ (loading /\ pc = "ready") => \E r \in inflight : r.kind = "me"

\* C14 amended: every session is in the resolving state (loading = true) during
\* its first render, until the effect of that render has run.  From then on
\* loading is true only in a session created with a persisted token, exactly
\* until the one identity check issued at start completes; a session created
\* without one leaves the resolving state when that effect runs, with no
\* request.  Once false, loading never becomes true again.
C14_ResolvingUntilFirstCheckCompletes ==
  [][ /\ pc = "mount" => loading
      /\ ~loading => ~loading'
      /\ (pc = "mount" /\ token # NoToken) => loading'
      /\ (pc = "mount" /\ token = NoToken) => (~loading' /\ meIssued' = 0)
      /\ (loading' /\ pc' = "ready")
           => /\ meIssued' = 1
              /\ Cardinality({ r \in inflight' : r.kind = "me" }) = 1
              /\ \A r \in inflight' : r.kind = "me" /\ ~r.stale /\ r.tok = token'
      /\ (loading /\ pc = "ready")
           => (~loading' <=> last'.ev \in {"fetchUserResolved", "fetchUserRejected"})
    ]_vars

\* the session of a persisted token waits for its identity check
C14_Witness ==
  /\ loading /\ pc = "ready" /\ meIssued = 1
  /\ \E r \in inflight : r.kind = "me" /\ r.tok = token

\* C15: updateUser called while the identity is absent is a no-op: the identity
\* stays absent and token, persisted token and loading are unchanged.
C15_UpdateUserWithoutIdentityIsNoOp ==
  [][(last'.ev = "updateUser" /\ user = None)
       => (user' = None /\ UNCHANGED << token, loading, storage >>)]_vars

\* C16: updateUser(fields) called while authenticated replaces the identity by
\* the shallow merge of the old identity with fields (the given fields override,
\* every other field keeps its value), issues no request and leaves token,
\* persisted token and loading unchanged.
C16_UpdateUserShallowMerges ==
  [][(last'.ev = "updateUser" /\ user # None /\ ~loading)
       => /\ user' # None
          /\ LET d == last'.resp.user[1]
                 old == user[1]
                 new == user'[1] IN
             /\ DOMAIN new = (DOMAIN old) \cup (DOMAIN d)
             /\ \A f \in DOMAIN d : new[f] = d[f]
             /\ \A f \in (DOMAIN old) \ (DOMAIN d) : new[f] = old[f]
          /\ UNCHANGED << token, storage, loading, inflight, meIssued >>]_vars

\* user "1" renamed: the id is kept, the username overridden
C16_Witness ==
  /\ last.ev = "updateUser" /\ last.resp.user = Some([username |-> "c"])
  /\ user = Some([id |-> "1", username |-> "c"])
  /\ token # NoToken /\ ~loading

\* C17: register has the session contract of login.  Started from the same
\* session state and given the same backend outcome, both leave the same
\* persisted token, in-memory token, identity and loading, issue the same
\* identity fetch, and hand the same value or error to their caller: the
\* outcome of either is one function of the state before and of the response.
C17_RegisterHasLoginContract ==
  [][ /\ last'.ev \in {"login", "register"}
           => /\ UNCHANGED session
              /\ last'.req.tok = token /\ last'.header = Bearer(token)
              /\ last'.out = None /\ ~last'.threw
      /\ last'.ev \in {"loginResolved", "registerResolved"}
           => /\ session' = << last'.resp.user, last'.resp.token, loading, last'.resp.token >>
              /\ last'.out = last'.resp.user /\ ~last'.threw
              /\ meIssued' = meIssued + (IF last'.resp.token # token THEN 1 ELSE 0)
      /\ last'.ev \in {"loginRejected", "registerRejected"}
           => /\ UNCHANGED session
              /\ last'.out = None /\ last'.threw
              /\ meIssued' = meIssued
    ]_vars

\* a registration answered {token: "T1", user: user "1"} has been applied
C17_Witness ==
  /\ last.ev = "registerResolved" /\ last.req.kind = "register"
  /\ token = "T1" /\ storage = "T1" /\ user = Some([id |-> "1", username |-> "a"])
  /\ last.out = user
  /\ \E r \in inflight : r.kind = "me" /\ r.tok = "T1"

\* C18: on every protected route, ProtectedRoute renders the wrapped view exactly
\* when the status is authenticated, the loading placeholder (neither the view
\* nor a redirect) exactly while it is resolving, and a redirect to /auth
\* exactly when it is anonymous; an anonymous session therefore rests on /auth.
C18_ProtectedRouteByStatus ==
  /\ \A p \in ProtectedPaths :
       /\ AppRoutes(p) = "children" <=> status = "authenticated"
       /\ AppRoutes(p) = "placeholder" <=> status = "resolving"
       /\ AppRoutes(p) = "redirect:/auth" <=> status = "anonymous"
       /\ status = "anonymous" => Hop(p) = "/auth"
       /\ status # "anonymous" => Hop(p) = p
  /\ (pc = "ready" /\ status = "anonymous") => location = "/auth"

\* an authenticated session shows the protected view it navigated to
C18_Witness ==
  /\ status = "authenticated" /\ token # NoToken
  /\ location = "/explore" /\ AppRoutes(location) = "children"
  /\ last.ev = "navigate"

\* C19: PublicRoute renders the entry view exactly when the status is anonymous,
\* a loading placeholder exactly while it is resolving, and a redirect to the
\* default protected view "/" exactly when it is authenticated; an
\* authenticated session therefore never rests on /auth.
C19_PublicRouteByStatus ==
  /\ AppRoutes("/auth") = "children" <=> status = "anonymous"
  /\ AppRoutes("/auth") = "placeholder" <=> status = "resolving"
  /\ AppRoutes("/auth") = "redirect:/" <=> status = "authenticated"
  /\ status = "authenticated" => Hop("/auth") = "/"
  /\ status # "authenticated" => Hop("/auth") = "/auth"
  /\ (pc = "ready" /\ status = "authenticated") => location \in ProtectedPaths

\* the identity check of the start has succeeded: /auth redirects to "/"
C19_Witness ==
  /\ last.ev = "fetchUserResolved" /\ ops = 0
  /\ status = "authenticated" /\ AppRoutes("/auth") = "redirect:/"
  /\ location = "/"

\* C20: the routing layer never mutates session state: a navigation, with the
\* placeholder or the redirects it ends in, leaves identity, token, loading and
\* the persisted token unchanged; and every change of status is caused by
\* initialize (the identity check and its response), login, register or logout.
C20_OnlySessionOperationsChangeStatus ==
  [][ /\ last'.ev = "navigate" => UNCHANGED session
      /\ status' # status
           => last'.ev \in {"mountEffect", "fetchUserResolved", "fetchUserRejected",
                            "loginResolved", "registerResolved", "logout"}
    ]_vars

\* C21 as stated: for the expected failures (a rejected login or register, a
\* rejected identity check) the session operation never throws or rejects into
\* its caller.
C21_NeverRejectsIntoCaller ==
  last.ev \in {"loginRejected", "registerRejected", "fetchUserRejected"} => ~last.threw

\* C21 amended: a failed login or register rejects into its caller, having
\* changed no session state; the caller, AuthPage.handleSubmit, catches every
\* such rejection and turns it into an error toast without navigating, so no
\* error leaves the handler.  A failed identity check is caught inside
\* fetchUser: nothing is thrown and the session is forced anonymous.
C21_RejectionsCaughtByTheForm ==
  [][ /\ last'.ev \in {"loginRejected", "registerRejected"}
           => /\ last'.threw
              /\ UNCHANGED session
              /\ authPage'.caught # None
              /\ authPage'.toast # NoToast
              /\ ~authPage'.navigated
      /\ last'.ev = "fetchUserRejected"
           => /\ ~last'.threw /\ authPage'.caught = None
              /\ user' = None /\ token' = NoToken /\ storage' = NoToken /\ ~loading'
      /\ last'.threw => authPage'.caught # None
    ]_vars

\* a registration failed without a response and the form caught the error
C21_Witness ==
  /\ last.ev = "registerRejected" /\ last.threw
  /\ authPage.caught = Some(NoDetail) /\ authPage.toast = "Something went wrong"

\* C22: every failed login or register submitted from the entry view raises an
\* error toast: the detail of the backend when the error carries one, else
\* 'Something went wrong'; the handler does not navigate, the session stays on
\* the entry view, and the in-flight flag of the form is false again (it is
\* true only while the request of the mounted form is pending).
C22_FailedSubmitIsSurfaced ==
  /\ last.ev \in {"loginRejected", "registerRejected"}
       => /\ authPage.caught # None
          /\ authPage.caught[1] # NoDetail => authPage.toast = authPage.caught[1]
          /\ authPage.caught[1] = NoDetail => authPage.toast = "Something went wrong"
          /\ ~authPage.navigated
          /\ status = "anonymous" => location = "/auth"
          /\ authPage.awaits # last.req.id
  /\ authPage.awaits # 0 => \E r \in Pending : r.id = authPage.awaits

\* a login was refused with a message of the backend
C22_Witness ==
  /\ last.ev = "loginRejected"
  /\ authPage.caught = Some("Invalid credentials")
  /\ authPage.toast = "Invalid credentials"
  /\ authPage.awaits = 0 /\ location = "/auth" /\ status = "anonymous"

\* C23: the persisted token is read once, at the first render, and never again;
\* it is written only by a successful login or register and deleted only by
\* logout or a failed identity check.
C23_PersistedTokenScoped ==
  [][ /\ ~getItemCalled
      /\ (storage' # storage /\ storage' # NoToken)
           => last'.ev \in {"loginResolved", "registerResolved"}
      /\ (storage' # storage /\ storage' = NoToken)
           => last'.ev \in {"logout", "fetchUserRejected"}
    ]_vars

\* C24: in every reachable state the in-memory token equals the persisted
\* token: both absent or both the same string.
C24_TokenEqualsPersisted == token = storage

\* a registration has installed token "T2" in memory and in storage
C24_Witness ==
  /\ last.ev = "registerResolved" /\ last.resp.token = "T2"
  /\ token = "T2" /\ storage = "T2"

C26_LoadingEndsForGood ==
  /\ <>(~loading)
  /\ [][~loading => ~loading']_vars

\* the identity check of the start was answered and the session is resolved
C26_Witness ==
  /\ ~loading /\ pc = "ready" /\ meIssued = 1 /\ inflight = {}
  /\ last.ev \in {"fetchUserResolved", "fetchUserRejected"} /\ last.req.kind = "me"

\* C27: with loading = false exactly one of the two gates redirects and the
\* other renders (ProtectedRoute redirects to /auth iff the identity is absent,
\* PublicRoute to "/" iff it is present), so every path, an unknown one sent to
\* "/" included, rests on a rendered view after at most two redirects; the
\* router is at rest on such a view, also after the logout button.
C27_RedirectsSettle ==
  /\ ~loading
       => /\ ProtectedRoute = "redirect:/auth" <=> user = None
          /\ PublicRoute = "redirect:/" <=> user # None
          /\ ProtectedRoute = "children" <=> PublicRoute = "redirect:/"
          /\ PublicRoute = "children" <=> ProtectedRoute = "redirect:/auth"
          /\ \A p \in Paths :
               /\ AppRoutes(Hop(Hop(p))) = "children"
               /\ Hop(Hop(Hop(p))) = Hop(Hop(p))
               /\ Settle(p, {}) = Hop(Hop(p))
  /\ (pc = "ready" /\ ~loading) => AppRoutes(location) = "children"
  /\ last.ev = "logout" => location = "/auth"

\* an anonymous session navigated away from /auth and was sent back
C27_Witness ==
  /\ last.ev = "navigate" /\ status = "anonymous"
  /\ location = "/auth" /\ Hop("/nowhere") = "/" /\ Hop(Hop("/nowhere")) = "/auth"

\* C28: on the messages page at most one interval is active; it belongs to the
\* mounted page, is the one pollInterval.current holds and polls the selected
\* conversation.  After the selection changed or became none, or the page was
\* unmounted, no interval of the former selection is left.
C28_AtMostOnePollingTimer ==
  /\ Cardinality(timers) <= 1
  /\ \A t \in timers :
       /\ mounted /\ t.live
       /\ selectedConversation # NoConv /\ t.conv = selectedConversation
       /\ t.id = pollInterval

\* the selection moved from one conversation to another: one interval, for "B"
C28_Witness ==
  /\ mounted /\ selectedConversation = "B" /\ conversationId = "B"
  /\ timerSeq >= 2 /\ timers = { Timer(timerSeq, "B") }

\* C29: the displayed messages always belong to the selected conversation, and
\* the list is empty when none is selected.
C29_MessagesOfSelectedConversation ==
  /\ selectedConversation # NoConv
       => (messages = << >> \/ messages[1].conversation_id = selectedConversation)
  /\ selectedConversation = NoConv => messages = << >>

\* C30: the displayed count is the initial likes_count, plus one if the card is
\* liked, minus one if the post was liked initially.
C30_LikesCountConsistent ==
  likesCount = post.likes_count + (IF liked THEN 1 ELSE 0)
                                - (IF post.is_liked THEN 1 ELSE 0)

====
